---- MODULE Spec2Model ----
(***************************************************************************)
(* A model of the search engine of Assignment-01/search_engine.py:         *)
(* the chained hash table (HashTable), the indexer built on it (Indexer),  *)
(* the text pre-processing (SearchEngine.preprocessing with                *)
(* NounExtractor.extract_nouns) and the TF-IDF ranked search.              *)
(*                                                                         *)
(* A string is a sequence of character codes (ord), so that lower(), the   *)
(* punctuation-stripping regular expression and the polynomial hash are    *)
(* computed as the code computes them.  A text is a sequence of its        *)
(* whitespace-separated raw tokens.                                        *)
(***************************************************************************)
EXTENDS Integers, Sequences, FiniteSets, TLC

VARIABLES
    ht,               \* a stand-alone HashTable: [table, size, count]
    stored,           \* history: key -> what a plain map would hold for it
    inserted,         \* history: key -> doc_id -> inserts since the key's last removal
    op,               \* history: the call that returned last
    fresh,            \* history: how many keys of the universe were ever inserted
    removes,          \* history: number of remove calls that found their key
    calls,            \* history: number of calls charged to the bound on calls
    indexer_title,    \* SearchEngine.indexer_title.index
    indexer_content,  \* SearchEngine.indexer_content.index
    doc_lengths,      \* SearchEngine.doc_lengths
    documents,        \* SearchEngine.documents
    no_of_docs,       \* SearchEngine.no_of_docs
    result            \* the value the last search call returned, with its query

htVars == <<ht, stored, inserted, op, fresh, removes, calls>>
engineVars == <<indexer_title, indexer_content, doc_lengths, documents, no_of_docs, result>>
vars == <<ht, stored, inserted, op, fresh, removes, calls,
          indexer_title, indexer_content, doc_lengths, documents, no_of_docs, result>>

(***************************************************************************)
(* Bounds of the model.                                                    *)
(***************************************************************************)
NumKeys == 13        \* SpecLoad: distinct keys inserted
MaxExtra == 2        \* SpecLoad: calls other than the insert of a new key
MaxCalls == 5        \* SpecTable: insert and remove calls
MaxDocs == 2         \* SpecEngine: documents added
MaxTokens == 3       \* SpecEngine: raw tokens of all titles and contents together

InitialSize == 16    \* HashTable.__init__: initial_size=16

(***************************************************************************)
(* Characters and strings.                                                 *)
(***************************************************************************)
IsUpper(c) == c \in 65..90
IsLowerCase(c) == c \in 97..122
IsDigit(c) == c \in 48..57

\* str.lower() on one character, and on a string
LowerChar(c) == IF IsUpper(c) THEN c + 32 ELSE c
RECURSIVE LowerFrom(_, _)
LowerFrom(w, n) == IF n > Len(w) THEN <<>> ELSE <<LowerChar(w[n])>> \o LowerFrom(w, n + 1)
Lower(w) == LowerFrom(w, 1)

\* the characters re.sub(r'[^a-zA-Z0-9\s]', '', text) keeps inside a token
IsKept(c) == IsUpper(c) \/ IsLowerCase(c) \/ IsDigit(c)

SeqToSet(s) == {s[i] : i \in 1..Len(s)}

\* the orders in which a set can be iterated
RECURSIVE Orderings(_)
Orderings(S) ==
    IF S = {} THEN {<<>>}
    ELSE UNION {{<<x>> \o rest : rest \in Orderings(S \ {x})} : x \in S}

(***************************************************************************)
(* HashTable.                                                              *)
(* A bucket is None or a list of (key, value) pairs; a value is a list of  *)
(* postings {'doc_id': d, 'count': c}.  Python's index i is i + 1 here.    *)
(***************************************************************************)
NoneBucket == [none |-> TRUE, items |-> <<>>]
ListBucket(items) == [none |-> FALSE, items |-> items]

\* the truth value of a bucket: None and the empty list are false
Truthy(bucket) == ~bucket.none /\ Len(bucket.items) > 0

\* [None] * n
RECURSIVE Nones(_)
Nones(n) == IF n = 0 THEN <<>> ELSE Append(Nones(n - 1), NoneBucket)

\* HashTable.__init__
NewHashTable(initial_size) ==
    [table |-> Nones(initial_size),
     size |-> initial_size,
     count |-> 0]

\* HashTable._hash: hash_value = (hash_value * 31 + ord(char)) % self.size
RECURSIVE HashFrom(_, _, _, _)
HashFrom(hash_value, key, n, size) ==
    IF n > Len(key) THEN hash_value
    ELSE HashFrom((hash_value * 31 + key[n]) % size, key, n + 1, size)

Hash(key, size) == HashFrom(0, key, 1, size)

\* all (key, value) pairs of the table, bucket by bucket, in list order
RECURSIVE EntriesFrom(_, _)
EntriesFrom(table, n) ==
    IF n > Len(table) THEN <<>>
    ELSE (IF Truthy(table[n]) THEN table[n].items ELSE <<>>) \o EntriesFrom(table, n + 1)

Entries(table) == EntriesFrom(table, 1)

Place_Overwrite(new_table, entry, size) ==
    LET new_index == Hash(entry[1], size) + 1
    IN  [new_table EXCEPT ![new_index] = ListBucket(<<entry>>)]

\* the body of the loop of _resize for one (key, value) pair
Place(new_table, entry, size) ==
    LET new_index == Hash(entry[1], size) + 1
    IN  IF new_table[new_index].none
        THEN [new_table EXCEPT ![new_index] = ListBucket(<<entry>>)]
        ELSE [new_table EXCEPT ![new_index] = ListBucket(@.items \o <<entry>>)]

RECURSIVE PlaceAll(_, _, _, _)
PlaceAll(new_table, entries, n, size) ==
    IF n > Len(entries) THEN new_table
    ELSE PlaceAll(Place(new_table, entries[n], size), entries, n + 1, size)

\* HashTable._resize
Resize(old) ==
    LET doubled == old.size * 2
    IN  [table |-> PlaceAll(Nones(doubled), Entries(old.table), 1, doubled),
         size |-> doubled,
         count |-> old.count]

\* the load-factor test of insert: self.count > self.size * 0.7
OverLoaded_Late(count, size) == count * 10 > size * 9

OverLoaded(count, size) == count * 10 > size * 7

\* the end of insert after a new pair was stored
CountAndResize(added) ==
    LET counted == [added EXCEPT !.count = @ + 1]
    IN  IF OverLoaded(counted.count, counted.size) THEN Resize(counted) ELSE counted

\* the position of the first pair of the list with the key, 0 when there is none
RECURSIVE FirstKey(_, _, _)
FirstKey(items, key, i) ==
    IF i > Len(items) THEN 0
    ELSE IF items[i][1] = key THEN i
    ELSE FirstKey(items, key, i + 1)

\* the position of the first posting of the list with the doc_id, 0 when there is none
RECURSIVE FirstDoc(_, _, _)
FirstDoc(postings, doc_id, i) ==
    IF i > Len(postings) THEN 0
    ELSE IF postings[i].doc_id = doc_id THEN i
    ELSE FirstDoc(postings, doc_id, i + 1)

\* insert on a key that is present: count the doc_id's posting or append value[0]
MergePosting_Append(existing_value, value) == existing_value \o <<value[1]>>

MergePosting(existing_value, value) ==
    LET j == FirstDoc(existing_value, value[1].doc_id, 1)
    IN  IF j # 0
        THEN [existing_value EXCEPT ![j].count = @ + 1]
        ELSE existing_value \o <<value[1]>>

\* HashTable.insert
Insert(h, key, value) ==
    LET index == Hash(key, h.size) + 1
        chain == h.table[index]
        at == FirstKey(chain.items, key, 1)
    IN  IF chain.none
        THEN CountAndResize([h EXCEPT !.table[index] = ListBucket(<<<<key, value>>>>)])
        ELSE IF at # 0
        THEN [h EXCEPT !.table[index].items[at][2] = MergePosting(@, value)]
        ELSE CountAndResize([h EXCEPT !.table[index].items = @ \o <<<<key, value>>>>])

\* the result of lookup: None, or the value stored with the key
None == [found |-> FALSE, value |-> <<>>]
Found(value) == [found |-> TRUE, value |-> value]

\* HashTable.lookup
Lookup(h, key) ==
    LET chain == h.table[Hash(key, h.size) + 1]
        at == FirstKey(chain.items, key, 1)
    IN  IF Truthy(chain) /\ at # 0 THEN Found(chain.items[at][2]) ELSE None

\* a list without its i-th element: del list[i]
DelAt(items, i) == SubSeq(items, 1, i - 1) \o SubSeq(items, i + 1, Len(items))

\* HashTable.remove: the value returned
RemoveFound(h, key) ==
    LET chain == h.table[Hash(key, h.size) + 1]
    IN  Truthy(chain) /\ FirstKey(chain.items, key, 1) # 0

\* HashTable.remove: the table after the call
Remove(h, key) ==
    LET index == Hash(key, h.size) + 1
        chain == h.table[index]
        at == FirstKey(chain.items, key, 1)
    IN  IF Truthy(chain) /\ at # 0
        THEN [h EXCEPT !.table[index].items = DelAt(@, at), !.count = @ - 1]
        ELSE h

(***************************************************************************)
(* Text pre-processing.                                                    *)
(***************************************************************************)
\* NounExtractor.__init__
collective_nouns ==
    {
     <<116, 101, 97, 109>>, <<102, 97, 109, 105, 108, 121>>, <<102, 108, 111, 99, 107>>,  \* team family flock
     <<106, 117, 114, 121>>, <<99, 111, 109, 109, 105, 116, 116, 101, 101>>, <<97, 114, 109, 121>>,  \* jury committee army
     <<99, 114, 111, 119, 100>>, <<103, 114, 111, 117, 112>>, <<99, 108, 97, 115, 115>>,  \* crowd group class
     <<98, 97, 110, 100>>, <<99, 111, 109, 112, 97, 110, 121>>, <<112, 97, 110, 101, 108>>,  \* band company panel
     <<99, 114, 101, 119>>, <<115, 113, 117, 97, 100>>, <<99, 111, 109, 109, 117, 110, 105, 116, 121>>,  \* crew squad community
     <<102, 97, 99, 117, 108, 116, 121>>  \* faculty
    }

material_nouns ==
    {
     <<103, 111, 108, 100>>, <<115, 105, 108, 118, 101, 114>>, <<119, 111, 111, 100>>,  \* gold silver wood
     <<105, 114, 111, 110>>, <<112, 108, 97, 115, 116, 105, 99>>, <<115, 116, 101, 101, 108>>,  \* iron plastic steel
     <<119, 97, 116, 101, 114>>, <<97, 105, 114>>, <<103, 108, 97, 115, 115>>,  \* water air glass
     <<111, 105, 108>>, <<115, 97, 110, 100>>, <<103, 114, 97, 105, 110>>,  \* oil sand grain
     <<99, 111, 112, 112, 101, 114>>, <<97, 108, 117, 109, 105, 110, 117, 109>>, <<99, 111, 116, 116, 111, 110>>,  \* copper aluminum cotton
     <<119, 111, 111, 108>>  \* wool
    }

abstract_nouns ==
    {
     <<102, 114, 101, 101, 100, 111, 109>>, <<108, 111, 118, 101>>, <<98, 101, 97, 117, 116, 121>>,  \* freedom love beauty
     <<105, 110, 116, 101, 108, 108, 105, 103, 101, 110, 99, 101>>, <<104, 111, 110, 101, 115, 116, 121>>, <<119, 105, 115, 100, 111, 109>>,  \* intelligence honesty wisdom
     <<99, 111, 117, 114, 97, 103, 101>>, <<106, 117, 115, 116, 105, 99, 101>>, <<104, 97, 112, 112, 105, 110, 101, 115, 115>>,  \* courage justice happiness
     <<116, 114, 117, 116, 104>>, <<102, 97, 105, 116, 104>>, <<115, 116, 114, 101, 110, 103, 116, 104>>,  \* truth faith strength
     <<108, 111, 121, 97, 108, 116, 121>>, <<112, 101, 97, 99, 101>>, <<99, 111, 109, 112, 97, 115, 115, 105, 111, 110>>,  \* loyalty peace compassion
     <<112, 97, 116, 105, 101, 110, 99, 101>>, <<104, 117, 109, 105, 108, 105, 116, 121>>, <<100, 105, 103, 110, 105, 116, 121>>,  \* patience humility dignity
     <<102, 114, 105, 101, 110, 100, 115, 104, 105, 112>>, <<104, 111, 112, 101>>, <<99, 114, 101, 97, 116, 105, 118, 105, 116, 121>>,  \* friendship hope creativity
     <<99, 104, 97, 114, 105, 116, 121>>, <<103, 114, 97, 99, 101>>, <<101, 109, 112, 97, 116, 104, 121>>,  \* charity grace empathy
     <<107, 105, 110, 100, 110, 101, 115, 115>>, <<116, 114, 117, 115, 116>>, <<97, 109, 98, 105, 116, 105, 111, 110>>,  \* kindness trust ambition
     <<99, 111, 110, 102, 105, 100, 101, 110, 99, 101>>, <<112, 97, 115, 115, 105, 111, 110>>, <<114, 101, 115, 105, 108, 105, 101, 110, 99, 101>>,  \* confidence passion resilience
     <<105, 110, 116, 101, 103, 114, 105, 116, 121>>, <<99, 117, 114, 105, 111, 115, 105, 116, 121>>, <<103, 114, 97, 116, 105, 116, 117, 100, 101>>,  \* integrity curiosity gratitude
     <<100, 105, 115, 99, 105, 112, 108, 105, 110, 101>>, <<104, 111, 110, 111, 114>>, <<105, 109, 97, 103, 105, 110, 97, 116, 105, 111, 110>>,  \* discipline honor imagination
     <<114, 101, 115, 112, 101, 99, 116>>, <<103, 101, 110, 101, 114, 111, 115, 105, 116, 121>>, <<112, 101, 114, 115, 101, 118, 101, 114, 97, 110, 99, 101>>,  \* respect generosity perseverance
     <<115, 105, 110, 99, 101, 114, 105, 116, 121>>, <<116, 104, 111, 117, 103, 104, 116, 102, 117, 108, 110, 101, 115, 115>>, <<117, 110, 105, 116, 121>>  \* sincerity thoughtfulness unity
    }

possessive_suffix == <<39, 115>>  \* 's
determiners == {<<97>>, <<97, 110>>, <<116, 104, 101>>}  \* a an the

\* stopwords.words('english') of nltk: the words of that list the texts and queries
\* below can contain
stop_words ==
    {<<116, 104, 101>>, <<97>>, <<97, 110>>, <<97, 110, 100>>, <<105, 115>>, <<105, 110>>, <<105, 116>>, <<111, 110>>, <<111, 102>>, <<116, 111>>}  \* the a an and is in it on of to

\* the characters str.strip(",.!?") removes from both ends
IsStripped(c) == c \in {44, 46, 33, 63}

RECURSIVE StripLeft(_)
StripLeft(w) ==
    IF Len(w) > 0 /\ IsStripped(w[1]) THEN StripLeft(SubSeq(w, 2, Len(w))) ELSE w

RECURSIVE StripRight(_)
StripRight(w) ==
    IF Len(w) > 0 /\ IsStripped(w[Len(w)]) THEN StripRight(SubSeq(w, 1, Len(w) - 1)) ELSE w

Strip(w) == StripRight(StripLeft(w))

\* word.endswith(suffix)
EndsWith(w, suffix) ==
    Len(w) >= Len(suffix) /\ SubSeq(w, Len(w) - Len(suffix) + 1, Len(w)) = suffix

\* a raw token after re.sub(r'[^a-zA-Z0-9\s]', '', text)
RECURSIVE KeptFrom(_, _)
KeptFrom(w, n) ==
    IF n > Len(w) THEN <<>>
    ELSE (IF IsKept(w[n]) THEN <<w[n]>> ELSE <<>>) \o KeptFrom(w, n + 1)

\* word_tokenize of the text without its punctuation: the raw tokens that keep a
\* character, in order
RECURSIVE TokenizeFrom(_, _)
TokenizeFrom(text, n) ==
    IF n > Len(text) THEN <<>>
    ELSE (IF Len(KeptFrom(text[n], 1)) > 0 THEN <<KeptFrom(text[n], 1)>> ELSE <<>>)
         \o TokenizeFrom(text, n + 1)

Tokenize(text) == TokenizeFrom(text, 1)

\* the if / elif chain of extract_nouns for words[i]: one of the rules adds the word
IsNoun(words, i) ==
    LET word == Strip(words[i])
    IN  \/ IsUpper(word[1]) /\ (i = 1 \/ Lower(words[i - 1]) \notin determiners)
        \/ Lower(word) \in collective_nouns
        \/ Lower(word) \in material_nouns
        \/ EndsWith(word, possessive_suffix)
        \/ 45 \in SeqToSet(word)
        \/ Lower(word) \in abstract_nouns

\* NounExtractor.extract_nouns: a set of words
extract_nouns(words) == {Strip(words[i]) : i \in {j \in 1..Len(words) : IsNoun(words, j)}}

NotStopWord(word) == Lower(word) \notin stop_words

\* SearchEngine.preprocessing(text, is_query=True): a list
PreprocessQuery(text) == SelectSeq(Tokenize(text), NotStopWord)

\* SearchEngine.preprocessing(text, is_query=False): a list made from a set, in any
\* of the orders the set can be iterated in
PreprocessDocument(text) ==
    Orderings({word \in extract_nouns(Tokenize(text)) : NotStopWord(word)})

(***************************************************************************)
(* The stand-alone hash table and its history.                             *)
(***************************************************************************)
\* the i-th key of the universe: "ba", "cb", "ac", "bd", ... (chains of two and
\* three keys at sizes 16 and 32)
KeyOf(i) == <<97 + (i % 3), 96 + i>>

\* the value Indexer.add_document inserts: [{'doc_id': doc_id, 'count': 1}]
NewPosting(doc_id) == <<[doc_id |-> doc_id, count |-> 1]>>

NoCall == [kind |-> "none", key |-> <<>>, found |-> FALSE]

EngineIdle ==
    /\ indexer_title = NewHashTable(InitialSize)
    /\ indexer_content = NewHashTable(InitialSize)
    /\ doc_lengths = <<>>
    /\ documents = <<>>
    /\ no_of_docs = 1
    /\ result = [kind |-> "none"]

TableInit(initial_size, keys, doc_ids) ==
    /\ ht = NewHashTable(initial_size)
    /\ stored = [k \in keys |-> None]
    /\ inserted = [k \in keys |-> [d \in doc_ids |-> 0]]
    /\ op = NoCall
    /\ fresh = 0
    /\ removes = 0
    /\ calls = 0

\* a call of insert(key, [{'doc_id': doc_id, 'count': 1}])
InsertCall(key, doc_id) ==
    /\ ht' = Insert(ht, key, NewPosting(doc_id))
    /\ stored' = [stored EXCEPT ![key] =
                     IF @.found THEN Found(MergePosting(@.value, NewPosting(doc_id)))
                     ELSE Found(NewPosting(doc_id))]
    /\ inserted' = [inserted EXCEPT ![key][doc_id] = @ + 1]
    /\ op' = [kind |-> "insert", key |-> key, found |-> Lookup(ht, key).found]

\* a call of remove(key)
RemoveCall(key) ==
    /\ ht' = Remove(ht, key)
    /\ stored' = [stored EXCEPT ![key] = None]
    /\ inserted' = [inserted EXCEPT ![key] = [d \in DOMAIN @ |-> 0]]
    /\ op' = [kind |-> "remove", key |-> key, found |-> RemoveFound(ht, key)]
    /\ removes' = IF RemoveFound(ht, key) THEN removes + 1 ELSE removes

(***************************************************************************)
(* SpecLoad: HashTable() with the default size.  New keys are inserted in  *)
(* the order of the universe; up to MaxExtra other calls (an insert of an  *)
(* earlier key, a remove of an earlier key) come in between.               *)
(***************************************************************************)
LoadKeys == {KeyOf(i) : i \in 1..NumKeys}
LoadDocIds == {1}

LoadInit == TableInit(InitialSize, LoadKeys, LoadDocIds) /\ EngineIdle

LoadInsertNew ==
    /\ fresh < NumKeys
    /\ InsertCall(KeyOf(fresh + 1), 1)
    /\ fresh' = fresh + 1
    /\ UNCHANGED <<removes, calls>>
    /\ UNCHANGED engineVars

LoadInsertAgain ==
    /\ calls < MaxExtra
    /\ \E i \in 1..fresh : InsertCall(KeyOf(i), 1)
    /\ calls' = calls + 1
    /\ UNCHANGED <<fresh, removes>>
    /\ UNCHANGED engineVars

LoadRemove ==
    /\ calls < MaxExtra
    /\ \E i \in 1..fresh : RemoveCall(KeyOf(i))
    /\ calls' = calls + 1
    /\ UNCHANGED fresh
    /\ UNCHANGED engineVars

LoadNext == LoadInsertNew \/ LoadInsertAgain \/ LoadRemove

SpecLoad == LoadInit /\ [][LoadNext]_vars

(***************************************************************************)
(* SpecTable: HashTable(initial_size) with a small size, any MaxCalls      *)
(* calls of insert and remove on three keys and two document ids.          *)
(***************************************************************************)
TableKeys == {KeyOf(1), KeyOf(2), KeyOf(3)}
TableDocIds == {1, 2}
TableSizes == {1, 2, 4}

TableSpecInit == \E initial_size \in TableSizes :
                    TableInit(initial_size, TableKeys, TableDocIds) /\ EngineIdle

TableInsert ==
    /\ calls < MaxCalls
    /\ \E key \in TableKeys, doc_id \in TableDocIds : InsertCall(key, doc_id)
    /\ calls' = calls + 1
    /\ UNCHANGED <<fresh, removes>>
    /\ UNCHANGED engineVars

TableRemove ==
    /\ calls < MaxCalls
    /\ \E key \in TableKeys : RemoveCall(key)
    /\ calls' = calls + 1
    /\ UNCHANGED fresh
    /\ UNCHANGED engineVars

TableNext == TableInsert \/ TableRemove

SpecTable == TableSpecInit /\ [][TableNext]_vars

(***************************************************************************)
(* Indexer and SearchEngine.                                               *)
(***************************************************************************)
\* Indexer.add_document: the index after inserting the words from the n-th on
RECURSIVE IndexerAddFrom(_, _, _, _)
IndexerAddFrom(index, doc_id, words, n) ==
    IF n > Len(words) THEN index
    ELSE IndexerAddFrom(Insert(index, Lower(words[n]), NewPosting(doc_id)), doc_id, words, n + 1)

IndexerAdd(index, doc_id, words) == IndexerAddFrom(index, doc_id, words, 1)

\* Indexer.search: one hit [word, doc_id, count] for each posting of each query word
RECURSIVE HitsOf(_, _, _)
HitsOf(word, postings, n) ==
    IF n > Len(postings) THEN <<>>
    ELSE <<[word |-> word, doc_id |-> postings[n].doc_id, count |-> postings[n].count]>>
         \o HitsOf(word, postings, n + 1)

RECURSIVE IndexerSearchFrom(_, _, _)
IndexerSearchFrom(index, query_words, n) ==
    IF n > Len(query_words) THEN <<>>
    ELSE LET search_result == Lookup(index, Lower(query_words[n]))
         IN  (IF search_result.found /\ Len(search_result.value) > 0
              THEN HitsOf(query_words[n], search_result.value, 1)
              ELSE <<>>)
             \o IndexerSearchFrom(index, query_words, n + 1)

IndexerSearch(index, query_words) == IndexerSearchFrom(index, query_words, 1)

\* the doc_ids of the blocks "Document ID: ..., Title: ..." of search_by_title's string
RECURSIVE DocIdsOf(_, _)
DocIdsOf(hits, n) ==
    IF n > Len(hits) THEN <<>> ELSE <<hits[n].doc_id>> \o DocIdsOf(hits, n + 1)

\* len(content.split())
DocLength_Normalized(content) ==
    Cardinality({word \in extract_nouns(Tokenize(content)) : NotStopWord(word)})

DocLength(content) == Len(content)

\* math.log(k) in millionths, for the k the bounds allow
LogMicro(k) ==
    CASE k = 1 -> 0
      [] k = 2 -> 693147
      [] k = 3 -> 1098612
      [] k = 4 -> 1386294
      [] k = 5 -> 1609438
      [] k = 6 -> 1791759

\* math.log(self.no_of_docs / (docs_containing_word + 1)) in millionths
Idf(total, docs_containing_word) == LogMicro(total) - LogMicro(docs_containing_word + 1)

\* A score is kept as the fraction num / den: num is the sum of count * idf over the
\* postings met, den is the document's length (tf = count / doc_length).
ZeroScore == [num |-> 0, den |-> 1]
IsZero(score) == score.num = 0
Less(a, b) == a.num * b.den < b.num * a.den

\* the inner loop of search_by_tf_idf: scores[doc_id] += tf * idf for each posting
RECURSIVE ScorePostings(_, _, _, _)
ScorePostings(scores, word_docs, idf, n) ==
    IF n > Len(word_docs) THEN scores
    ELSE LET doc_id == word_docs[n].doc_id
             added == [num |-> scores[doc_id].num + word_docs[n].count * idf,
                       den |-> doc_lengths[doc_id]]
         IN  ScorePostings([scores EXCEPT ![doc_id] = added], word_docs, idf, n + 1)

\* the outer loop of search_by_tf_idf
RECURSIVE ScoreWords(_, _, _)
ScoreWords(scores, words, n) ==
    IF n > Len(words) THEN scores
    ELSE LET word_docs == Lookup(indexer_content, Lower(words[n]))
         IN  IF ~word_docs.found \/ Len(word_docs.value) = 0
             THEN ScoreWords(scores, words, n + 1)
             ELSE ScoreWords(ScorePostings(scores, word_docs.value,
                                           Idf(no_of_docs, Len(word_docs.value)), 1),
                             words, n + 1)

\* the idf ratios search_by_tf_idf computes: [word, total, divisor] per word found
RECURSIVE IdfRatios(_, _)
IdfRatios(words, n) ==
    IF n > Len(words) THEN <<>>
    ELSE LET word_docs == Lookup(indexer_content, Lower(words[n]))
         IN  (IF ~word_docs.found \/ Len(word_docs.value) = 0
              THEN <<>>
              ELSE <<[word |-> Lower(words[n]), total |-> no_of_docs,
                      divisor |-> Len(word_docs.value) + 1]>>)
             \o IdfRatios(words, n + 1)

\* sorted(..., reverse=True) is stable: an item goes behind the items that do not
\* score less
RankInsert_Unsorted(ranked, item) == Append(ranked, item)

RECURSIVE RankInsert(_, _)
RankInsert(ranked, item) ==
    IF Len(ranked) > 0 /\ Less(ranked[Len(ranked)].score, item.score)
    THEN Append(RankInsert(SubSeq(ranked, 1, Len(ranked) - 1), item), ranked[Len(ranked)])
    ELSE Append(ranked, item)

\* sorted(scores.items(), key=lambda x: x[1], reverse=True); scores is a dict in the
\* order of self.documents, which is the order of the doc_ids
RECURSIVE SortedItems(_, _)
SortedItems(scores, n) ==
    IF n = 0 THEN <<>>
    ELSE RankInsert(SortedItems(scores, n - 1), [doc_id |-> n, score |-> scores[n]])

\* get_ranked_results_format_string: the blocks of the string, without the documents
\* whose score is 0
KeepRanked_All(item) == TRUE

KeepRanked(item) == ~IsZero(item.score)

\* SearchEngine.search_by_tf_idf
RankedResults(query) ==
    LET words == PreprocessQuery(query)
        zeros == [doc_id \in 1..Len(documents) |-> ZeroScore]
        scores == ScoreWords(zeros, words, 1)
    IN  SelectSeq(SortedItems(scores, Len(documents)), KeepRanked)

NoResult == [kind |-> "none"]

(***************************************************************************)
(* SpecEngine: main() loads up to MaxDocs documents with add_document and  *)
(* then answers queries.  The raw tokens of titles and contents are drawn  *)
(* from Vocabulary, MaxTokens of them in all.                              *)
(***************************************************************************)
w_gold == <<103, 111, 108, 100>>       \* gold
w_Gold == <<71, 111, 108, 100>>        \* Gold
w_the == <<116, 104, 101>>             \* the
w_cat == <<99, 97, 116>>               \* cat
w_CatDot == <<67, 97, 116, 46>>           \* Cat.

Vocabulary == {w_gold, w_Gold, w_the, w_cat, w_CatDot}
Queries == {<<w_the, w_CatDot>>, <<w_gold, w_cat>>}

RECURSIVE TextsOfLength(_)
TextsOfLength(n) ==
    IF n = 0 THEN {<<>>}
    ELSE {Append(text, word) : text \in TextsOfLength(n - 1), word \in Vocabulary}

TextsUpTo(n) == UNION {TextsOfLength(k) : k \in 0..n}

RECURSIVE TokensFrom(_)
TokensFrom(n) ==
    IF n = 0 THEN 0
    ELSE TokensFrom(n - 1) + Len(documents[n].title) + Len(documents[n].content)

\* the raw tokens of all documents added
TokensUsed == TokensFrom(Len(documents))

EngineInit == TableInit(InitialSize, {}, {}) /\ EngineIdle

\* SearchEngine.add_document(title, content)
AddDocument ==
    /\ result = NoResult
    /\ Len(documents) < MaxDocs
    /\ \E title \in TextsUpTo(MaxTokens - TokensUsed) :
       \E content \in TextsUpTo(MaxTokens - TokensUsed - Len(title)) :
       \E preprocessed_title \in PreprocessDocument(title) :
       \E preprocessed_content \in PreprocessDocument(content) :
          /\ indexer_title' = IndexerAdd(indexer_title, no_of_docs, preprocessed_title)
          /\ indexer_content' = IndexerAdd(indexer_content, no_of_docs, preprocessed_content)
          /\ documents' = Append(documents, [title |-> title, content |-> content])
          /\ doc_lengths' = Append(doc_lengths, DocLength(content))
          /\ no_of_docs' = no_of_docs + 1
    /\ UNCHANGED result
    /\ UNCHANGED htVars

\* SearchEngine.search_by_title(query)
SearchByTitle ==
    /\ \E query \in Queries :
          result' = [kind |-> "title", query |-> query,
                     docs |-> DocIdsOf(IndexerSearch(indexer_title, PreprocessQuery(query)), 1)]
    /\ UNCHANGED <<indexer_title, indexer_content, doc_lengths, documents, no_of_docs>>
    /\ UNCHANGED htVars

\* SearchEngine.search_by_tf_idf(query)
SearchByTfIdf ==
    /\ \E query \in Queries :
          result' = [kind |-> "ranked", query |-> query,
                     ranked |-> RankedResults(query),
                     idfs |-> IdfRatios(PreprocessQuery(query), 1)]
    /\ UNCHANGED <<indexer_title, indexer_content, doc_lengths, documents, no_of_docs>>
    /\ UNCHANGED htVars

EngineNext == AddDocument \/ SearchByTitle \/ SearchByTfIdf

SpecEngine == EngineInit /\ [][EngineNext]_vars

(***************************************************************************)
(* Claims on the hash table.                                               *)
(***************************************************************************)
\* C1: after every call (so whenever an insert has returned) count is at most
\* 0.70 * capacity; the capacity changes only in an insert that added a pair and
\* raised count above 0.70 * capacity, and then it doubles; as long as no key was
\* removed, the capacity is 16 up to 11 keys and 32 from the 12th inserted key on.
C1_LoadFactor ==
    /\ [](ht.count * 10 <= ht.size * 7)
    /\ [][ht'.size # ht.size =>
            /\ op'.kind = "insert"
            /\ ~op'.found
            /\ ht'.count = ht.count + 1
            /\ ht'.count * 10 > ht.size * 7
            /\ ht'.size = 2 * ht.size]_vars
    /\ [](removes = 0 => ht.size = IF ht.count < 12 THEN InitialSize ELSE 2 * InitialSize)

\* the 12th distinct key was just inserted and the table has grown from 16 to 32
C1_Witness ==
    /\ op.kind = "insert"
    /\ removes = 0
    /\ ht.count = 12
    /\ ht.size = 2 * InitialSize

\* the (key, value) pairs of the whole table that hold the key
PairsOf(key) ==
    LET entries == Entries(ht.table)
    IN  {i \in 1..Len(entries) : entries[i][1] = key}

\* C2: lookup(k) returns the stored value of every key inserted and not removed
\* afterwards and None for every other key, and every stored key is in exactly one
\* (key, value) pair of the table, whatever resizes happened.
C2_RoundTrip ==
    \A k \in DOMAIN stored :
        /\ Lookup(ht, k) = stored[k]
        /\ Cardinality(PairsOf(k)) = IF stored[k].found THEN 1 ELSE 0

\* the table grew to 8 buckets, a key was removed and is absent, another key holds
\* two postings
C2_Witness ==
    /\ ht.size = 8
    /\ removes > 0
    /\ \E k \in DOMAIN stored : ~stored[k].found /\ op.kind = "remove" /\ op.key = k /\ op.found
    /\ \E k \in DOMAIN stored : stored[k].found /\ Len(stored[k].value) = 2

\* the positions of the postings of a list that are of the document
PostingsOf(postings, doc_id) == {j \in 1..Len(postings) : postings[j].doc_id = doc_id}

\* C9: the postings list of a key holds at most one posting for each doc_id, its count
\* is the number of times (key, doc_id) was inserted (since the key's last removal),
\* and the number of postings is the number of distinct doc_ids inserted for the key.
C9_Postings ==
    \A k \in DOMAIN inserted :
        LET docs == {d \in DOMAIN inserted[k] : inserted[k][d] > 0}
            found == Lookup(ht, k)
        IN  /\ found.found <=> docs # {}
            /\ found.found =>
                /\ Len(found.value) = Cardinality(docs)
                /\ \A d \in DOMAIN inserted[k] :
                      /\ Cardinality(PostingsOf(found.value, d)) = IF d \in docs THEN 1 ELSE 0
                      /\ \A j \in PostingsOf(found.value, d) :
                            found.value[j].count = inserted[k][d]

\* after resizes up to 8 buckets a key holds postings of two documents, one of them
\* inserted twice
C9_Witness ==
    /\ ht.size = 8
    /\ \E k \in DOMAIN inserted :
          /\ Lookup(ht, k).found
          /\ Len(Lookup(ht, k).value) = 2
          /\ \E d \in DOMAIN inserted[k] : inserted[k][d] = 2

(***************************************************************************)
(* Claims on the search engine.                                            *)
(***************************************************************************)
DocIds == 1..Len(documents)

\* the index holds a posting of the document for the term
HasPosting(index, term, doc_id) ==
    LET looked == Lookup(index, term)
    IN  looked.found /\ \E j \in 1..Len(looked.value) : looked.value[j].doc_id = doc_id

\* the number of tokens of the text that are the term once lower-cased
Occurrences(term, text) ==
    LET tokens == Tokenize(text)
    IN  Cardinality({i \in 1..Len(tokens) : Lower(tokens[i]) = term})

\* every posting of the index for a document counts the term's occurrences in the text
CountsMatch(index, doc_id, text) ==
    LET entries == Entries(index.table)
    IN  \A i \in 1..Len(entries) :
            \A j \in 1..Len(entries[i][2]) :
                entries[i][2][j].doc_id = doc_id =>
                    entries[i][2][j].count = Occurrences(entries[i][1], text)

\* C3: for every term indexed for a document in a field, the posting's count is the
\* number of times the lower-cased term occurs in that field's text.
C3_Claim ==
    \A d \in DocIds :
        /\ CountsMatch(indexer_title, d, documents[d].title)
        /\ CountsMatch(indexer_content, d, documents[d].content)

\* the lower-cased terms of the query after pre-processing
QueryTerms(query) == {Lower(word) : word \in SeqToSet(PreprocessQuery(query))}

\* the document has a content posting for one of the query's terms
Matches(doc_id, query) ==
    \E term \in QueryTerms(query) : HasPosting(indexer_content, term, doc_id)

RankedDocs == {result.ranked[i].doc_id : i \in 1..Len(result.ranked)}

\* C4: the ranked search returns no document whose content postings hold none of
\* the query's terms.
C4_OnlyMatching ==
    result.kind = "ranked" => \A d \in RankedDocs : Matches(d, result.query)

\* a ranked search returned a document and left out one that matches no term
C4_Witness ==
    /\ result.kind = "ranked"
    /\ RankedDocs # {}
    /\ \E d \in DocIds : d \notin RankedDocs /\ ~Matches(d, result.query)

\* C5: idf is computed from total_document_count / (1 + document_frequency) with
\* total_document_count the number of documents added, so it is negative for a term
\* that occurs in every document.
C5_Claim ==
    result.kind = "ranked" =>
        \A i \in 1..Len(result.idfs) :
            LET df == Len(Lookup(indexer_content, result.idfs[i].word).value)
            IN  /\ result.idfs[i].total = Len(documents)
                /\ result.idfs[i].divisor = 1 + df
                /\ df > Len(documents) - 1 => Idf(result.idfs[i].total, df) < 0

\* C6: the ranked result is in descending order of score, and documents of equal
\* score are in ascending order of doc_id.
C6_Order ==
    result.kind = "ranked" =>
        \A i, j \in 1..Len(result.ranked) :
            i < j =>
                /\ ~Less(result.ranked[i].score, result.ranked[j].score)
                /\ ~Less(result.ranked[j].score, result.ranked[i].score) =>
                       result.ranked[i].doc_id < result.ranked[j].doc_id

\* a later document outscores an earlier one and is returned before it
C6_Witness ==
    /\ result.kind = "ranked"
    /\ \E i, j \in 1..Len(result.ranked) :
          /\ i < j
          /\ result.ranked[i].doc_id > result.ranked[j].doc_id
          /\ Less(result.ranked[j].score, result.ranked[i].score)

\* C7: every token of a document's title that is no stopword has a posting for the
\* document in the title index, and search_by_title with that token returns the
\* document.
C7_Claim ==
    \A d \in DocIds :
        \A word \in SeqToSet(Tokenize(documents[d].title)) :
            NotStopWord(word) =>
                /\ HasPosting(indexer_title, Lower(word), d)
                /\ (result.kind = "title" /\ Lower(word) \in QueryTerms(result.query)) =>
                       d \in SeqToSet(result.docs)

\* the number of normalized terms pre-processing makes of a content
NormalizedTerms(content) ==
    Cardinality({word \in extract_nouns(Tokenize(content)) : NotStopWord(word)})

\* C8 as claimed: the stored length of a document is the number of normalized terms
\* made of its content when it was added.
C8_Claim ==
    \A d \in DocIds : doc_lengths[d] = NormalizedTerms(documents[d].content)

\* C8 as amended: the stored length of a document is the number of whitespace-separated
\* tokens of its raw content, it is the denominator of every tf of the document, and
\* no later add_document or search changes it.
C8_Length ==
    /\ [](/\ Len(doc_lengths) = Len(documents)
          /\ \A d \in DocIds : doc_lengths[d] = Len(documents[d].content)
          /\ result.kind = "ranked" =>
                \A i \in 1..Len(result.ranked) :
                    result.ranked[i].score.den = doc_lengths[result.ranked[i].doc_id])
    /\ [][\A d \in 1..Len(doc_lengths) : doc_lengths'[d] = doc_lengths[d]]_vars

\* a document whose content holds a stopword was added, another one after it, and a
\* ranked search scored the first
C8_Witness ==
    /\ Len(documents) = 2
    /\ doc_lengths[1] = 2
    /\ NormalizedTerms(documents[1].content) = 1
    /\ result.kind = "ranked"
    /\ 1 \in RankedDocs

\* C10: every document with a content posting for a term of the query is in the
\* ranked result.
C10_Claim ==
    result.kind = "ranked" => \A d \in DocIds : Matches(d, result.query) => d \in RankedDocs

====
